---- MODULE Spec2Model ----
(***************************************************************************)
(* State-machine model of the mlx4 userspace verbs layer (src/verbs.c):    *)
(* creation, modification and destruction of completion queues (CQ),      *)
(* shared receive queues (SRQ) and queue pairs (QP), run by application    *)
(* threads against the kernel command interface, the doorbell and buffer   *)
(* allocators, the QP table and the hardware writing completions.          *)
(*                                                                         *)
(* The verbs.c functions are translated statement by statement; the       *)
(* collaborators whose code lives in other files of the library           *)
(* (mlx4_cq_clean, mlx4_store_qp, mlx4_clear_qp, mlx4_alloc_db, ...)      *)
(* are modelled from their description in the specification.              *)
(***************************************************************************)
EXTENDS Integers, Sequences, FiniteSets, TLC

(* ------------------------------------------------------------------ *)
(* Universe of the model                                               *)
(* ------------------------------------------------------------------ *)

\* Application threads calling into the library.
Threads == {"t1", "t2"}

\* Addresses malloc can hand out for each kind of queue object.
CQs  == {"cq1", "cq2"}
SRQs == {"srq1"}
QPs  == {"qp1", "qp2"}

NULL == "NULL"
NoThread == "none"

\* Largest producer index a work queue reaches before it counts as full.
MaxIdx == 1
\* Number of queue-pair numbers the kernel hands out (1..NumQpn).
NumQpn == 2
\* Number of CQ numbers the kernel hands out (1..NumCqn).
NumCqn == 2
\* Doorbell records and buffers the allocators can hand out.
\* Number of SRQ numbers the kernel hands out (1..NumSrqn).
NumSrqn == 1
NumDb  == 5
NumBuf == 5

QPNs  == 1..NumQpn
CQNs  == 1..NumCqn
SRQNs == 1..NumSrqn
DbIds == 1..NumDb
BufIds == 1..NumBuf

\* Limits tested by the sanity checks of the create calls.
MaxCqe       == 4194303 \* 0x3fffff
MaxSrqWr     == 65536   \* 1 << 16
MaxSrqSge    == 64
MaxSendWr    == 65536
MaxRecvWr    == 65536
MaxSendSge   == 64
MaxRecvSge   == 64
MaxInline    == 1024

Sides == {"sq", "rq"}

\* Return codes: 0 is success, EFAIL stands for any nonzero kernel error.
EFAIL == 1

VARIABLES
    pc,        \* pc[t]: position of thread t inside the call it is running
    call,      \* call[t]: the running call's name, object, arguments, result
    log,       \* log[t]: collaborator invocations made by the running call
    cq,        \* cq[c]: struct mlx4_cq at address c
    cqlock,    \* cqlock[c]: thread holding cq->lock, or NoThread
    srq,       \* srq[s]: struct mlx4_srq at address s
    qp,        \* qp[q]: struct mlx4_qp at address q
    qp_table,  \* context QP table: number -> QP address or NULL
    kqp,       \* kernel: QP number -> kernel QP record or NoKqp
    dbs,       \* doorbell records currently allocated
    bufs,      \* buffers currently allocated
    badfree    \* set when a doorbell or buffer is released while not allocated

vars == <<pc, call, log, cq, cqlock, srq, qp, qp_table, kqp, dbs, bufs, badfree>>

(* ------------------------------------------------------------------ *)
(* Pure helpers of verbs.c                                             *)
(* ------------------------------------------------------------------ *)

RECURSIVE cq_size_loop(_, _)
cq_size_loop(nent, cqe) ==
    IF nent <= cqe THEN cq_size_loop(2 * nent, cqe) ELSE nent

\* A rounding whose loop stops as soon as nent reaches cqe.
align_cq_size_AtLeast(cqe) == cq_size_loop(1, cqe - 1)

\* for (nent = 1; nent <= cqe; nent <<= 1);  return nent;
align_cq_size(cqe) == cq_size_loop(1, cqe)

RECURSIVE queue_size_loop(_, _)
queue_size_loop(ret, limit) ==
    IF ret < limit THEN queue_size_loop(2 * ret, limit) ELSE ret

\* A rounding that forgets the spare entry.
align_queue_size_NoSpare(size, spare) ==
    IF size = 0 THEN 0 ELSE queue_size_loop(1, size)

\* if (!size) return 0; for (ret = 1; ret < size + spare; ret <<= 1);
align_queue_size(size, spare) ==
    IF size = 0 THEN 0 ELSE queue_size_loop(1, size + spare)

\* A sanity check that lets a depth of 2^22 through.
CqSizeRejected_Above2p22(cqe) == cqe > MaxCqe + 1

\* "Sanity check CQ size before proceeding": TRUE when the request is rejected.
CqSizeRejected(cqe) == cqe > MaxCqe

\* "Sanity check SRQ size before proceeding".
SrqSizeRejected(max_wr, max_sge) == max_wr > MaxSrqWr \/ max_sge > MaxSrqSge

\* The sanity check of mlx4_create_qp without its inline-data test.
QpSizeRejected_NoInline(cap) ==
    \/ cap.max_send_wr  > MaxSendWr
    \/ cap.max_recv_wr  > MaxRecvWr
    \/ cap.max_send_sge > MaxSendSge
    \/ cap.max_recv_sge > MaxRecvSge

\* "Sanity check QP size before proceeding".
QpSizeRejected(cap) ==
    \/ cap.max_send_wr     > MaxSendWr
    \/ cap.max_recv_wr     > MaxRecvWr
    \/ cap.max_send_sge    > MaxSendSge
    \/ cap.max_recv_sge    > MaxRecvSge
    \/ cap.max_inline_data > MaxInline

(* ------------------------------------------------------------------ *)
(* Objects                                                             *)
(* ------------------------------------------------------------------ *)

\* Memory at an address malloc has not handed out (or that was freed).
NoCq == [st |-> "unalloc", cqn |-> 0, db |-> 0, buf |-> 0, nent |-> 0,
         cons_index |-> 0, arm_sn |-> 0, entries |-> {}]

NoSrq == [st |-> "unalloc", srqn |-> 0, db |-> 0, buf |-> 0,
          max |-> 0, max_gs |-> 0, counter |-> 0]

NoQp == [st |-> "unalloc", qpn |-> 0, send_cq |-> NULL, recv_cq |-> NULL,
         srq |-> NULL, db |-> 0, buf |-> 0,
         sq_max |-> 0, rq_max |-> 0, rq_max_gs |-> 0,
         sq_head |-> 0, sq_tail |-> 0, rq_head |-> 0, rq_tail |-> 0]

\* No kernel QP under this number.
NoKqp == [obj |-> NULL, send_cq |-> NULL, recv_cq |-> NULL, srq |-> NULL,
          state |-> "NONE", inflight |-> {}]

\* struct ibv_qp_init_attr, as far as verbs.c reads it.
NoCap == [max_send_wr |-> 0, max_recv_wr |-> 0, max_send_sge |-> 0,
          max_recv_sge |-> 0, max_inline_data |-> 0]

\* A thread that is not inside a library call. For the create calls a
\* nonzero ret stands for the NULL handle, ret = 0 for the handle of obj.
NoCall == [op |-> "none", obj |-> NULL, ret |-> 0, cap |-> NoCap,
           send_cq |-> NULL, recv_cq |-> NULL, srq |-> NULL,
           reset |-> FALSE, relock |-> FALSE, ent |-> 0, who |-> NULL]

\* One collaborator invocation: function f on object a (and b) with number n.
Ev(f, a, b, n) == [f |-> f, a |-> a, b |-> b, n |-> n]

\* A completion entry of a CQ ring: the QP number it is tagged with; owner
\* records which QP object's work request the hardware completed.
Cqe(n, o) == [qpn |-> n, owner |-> o]

Init ==
    /\ pc = [t \in Threads |-> "idle"]
    /\ call = [t \in Threads |-> NoCall]
    /\ log = [t \in Threads |-> <<>>]
    /\ cq = [c \in CQs |-> NoCq]
    /\ cqlock = [c \in CQs |-> NoThread]
    /\ srq = [s \in SRQs |-> NoSrq]
    /\ qp = [q \in QPs |-> NoQp]
    /\ qp_table = [n \in QPNs |-> NULL]
    /\ kqp = [n \in QPNs |-> NoKqp]
    /\ dbs = {}
    /\ bufs = {}
    /\ badfree = FALSE

(* ------------------------------------------------------------------ *)
(* Collaborators outside verbs.c                                       *)
(* ------------------------------------------------------------------ *)

Min(S) == CHOOSE x \in S : \A y \in S : x <= y

\* Which free record an allocator returns cannot be told from verbs.c: the
\* model returns the one at the requesting object's index when it is free
\* and the lowest free one otherwise (0: nothing is free).
Slot(o) ==
    CASE o = "cq1" -> 1 [] o = "cq2" -> 2 [] o = "srq1" -> 3
      [] o = "qp1" -> 4 [] OTHER -> 5

PickFree(o, ids, used) ==
    IF Slot(o) \in ids \ used THEN Slot(o)
    ELSE IF ids \ used = {} THEN 0 ELSE Min(ids \ used)

\* mlx4_alloc_db for object o
FreeDb(o) == PickFree(o, DbIds, dbs)
\* mlx4_alloc_buf for object o
FreeBuf(o) == PickFree(o, BufIds, bufs)

\* mlx4_cq_clean(cq, qpn, srq): every entry tagged qpn leaves the ring.
CleanedEntries(c, n) == {e \in cq[c].entries : e.qpn # n}

\* mlx4_init_qp_indices
InitQpIndices(r) ==
    [r EXCEPT !.sq_head = 0, !.sq_tail = 0, !.rq_head = 0, !.rq_tail = 0]

\* Kernel side: numbers not in use.
FreeQpns == {n \in QPNs : kqp[n] = NoKqp}
FreeCqns == CQNs \ {cq[c].cqn : c \in CQs}
FreeSrqns == SRQNs \ {srq[s].srqn : s \in SRQs}

\* Kernel side: a CQ or SRQ still used by a kernel QP cannot be destroyed.
KernelUsesCq(c) == \E n \in QPNs : kqp[n].send_cq = c \/ kqp[n].recv_cq = c
KernelUsesSrq(s) == \E n \in QPNs : kqp[n].srq = s

\* Some thread is inside a call on object o.
InCall(o) == \E t \in Threads : pc[t] # "idle" /\ call[t].obj = o

(* ------------------------------------------------------------------ *)
(* Call frame helpers                                                  *)
(* ------------------------------------------------------------------ *)

\* Thread t enters a library call.
Enter(t, op, o) == [NoCall EXCEPT !.op = op, !.obj = o]

\* The call of thread t returns r to the application.
Returned(t, r) ==
    /\ pc' = [pc EXCEPT ![t] = "done"]
    /\ call' = [call EXCEPT ![t].ret = r]

Goto(t, l) == pc' = [pc EXCEPT ![t] = l]

Logged(t, evs) == log' = [log EXCEPT ![t] = log[t] \o evs]

\* The application takes the result; the thread can make its next call.
Return(t) ==
    /\ pc[t] = "done"
    /\ pc' = [pc EXCEPT ![t] = "idle"]
    /\ call' = [call EXCEPT ![t] = NoCall]
    /\ log' = [log EXCEPT ![t] = <<>>]
    /\ UNCHANGED <<cq, cqlock, srq, qp, qp_table, kqp, dbs, bufs, badfree>>

(* ------------------------------------------------------------------ *)
(* Completion queues                                                   *)
(* ------------------------------------------------------------------ *)

\* What mlx4_create_cq invokes up to the point named by `fail`
\* ("none": every step succeeds).
CreateCqLog(c, nent, fail) ==
    LET m  == <<Ev("malloc", c, NULL, 0)>>
        b  == <<Ev("alloc_buf", c, NULL, nent)>>
        d  == <<Ev("alloc_db", c, NULL, 0)>>
        k  == <<Ev("cmd_create_cq", c, NULL, nent - 1)>>
        fd == <<Ev("free_db", c, NULL, 0)>>
        fb == <<Ev("free_buf", c, NULL, 0)>>
        fo == <<Ev("free", c, NULL, 0)>>
    IN CASE fail = "malloc" -> m
         [] fail = "spin"   -> m \o fo
         [] fail = "buf"    -> m \o b \o fo
         [] fail = "db"     -> m \o b \o d \o fb \o fo
         [] fail = "kernel" -> m \o b \o d \o k \o fd \o fb \o fo
         [] OTHER           -> m \o b \o d \o k

\* mlx4_create_cq(context, cqe, channel, comp_vector); n: the CQ number the
\* kernel hands out if the command succeeds
mlx4_create_cq(t, c, cqe, n) ==
    /\ pc[t] = "idle"
    /\ cq[c].st = "unalloc"
    /\ IF CqSizeRejected(cqe)
       THEN /\ pc' = [pc EXCEPT ![t] = "done"]
            /\ call' = [call EXCEPT ![t] = [Enter(t, "create_cq", c)
                                              EXCEPT !.ent = cqe, !.ret = EFAIL]]
            /\ UNCHANGED <<log, cq, dbs, bufs>>
       ELSE \E fail \in {"none", "malloc", "spin", "buf", "db", "kernel"} :
            LET nent == align_cq_size(cqe)
                ok   == fail = "none"
            IN /\ fail \in {"none", "kernel"} => (FreeBuf(c) # 0 /\ FreeDb(c) # 0)
               /\ fail = "db" => FreeBuf(c) # 0
               /\ ok => n \in FreeCqns
               /\ pc' = [pc EXCEPT ![t] = "done"]
               /\ call' = [call EXCEPT ![t] =
                      [Enter(t, "create_cq", c)
                          EXCEPT !.ent = cqe, !.ret = IF ok THEN 0 ELSE EFAIL]]
               /\ log' = [log EXCEPT ![t] = CreateCqLog(c, nent, fail)]
               /\ IF ok
                  THEN /\ cq' = [cq EXCEPT ![c] =
                             [st |-> "live", cqn |-> n, db |-> FreeDb(c),
                              buf |-> FreeBuf(c), nent |-> nent,
                              cons_index |-> 0, arm_sn |-> 1, entries |-> {}]]
                       /\ dbs' = dbs \cup {FreeDb(c)}
                       /\ bufs' = bufs \cup {FreeBuf(c)}
                  ELSE UNCHANGED <<cq, dbs, bufs>>
    /\ UNCHANGED <<cqlock, srq, qp, qp_table, kqp, badfree>>

\* mlx4_resize_cq: "XXX resize CQ not implemented", returns -ENOSYS.
mlx4_resize_cq(t, c) ==
    /\ pc[t] = "idle"
    /\ cq[c].st = "live"
    /\ pc' = [pc EXCEPT ![t] = "done"]
    /\ call' = [call EXCEPT ![t] = [Enter(t, "resize_cq", c) EXCEPT !.ret = EFAIL]]
    /\ UNCHANGED <<log, cq, cqlock, srq, qp, qp_table, kqp, dbs, bufs, badfree>>

\* The application does not destroy a CQ that one of its QPs still names.
CqInUse(c) ==
    \/ \E q \in QPs : qp[q].st # "unalloc" /\ c \in {qp[q].send_cq, qp[q].recv_cq}
    \/ \E t \in Threads : pc[t] # "idle" /\ c \in {call[t].send_cq, call[t].recv_cq, call[t].obj}

\* A destroy that goes on to release whatever the kernel answered.
DestroyCqFailed_Never(ret) == FALSE

\* lines 237-239: "if (ret) return ret;"
DestroyCqFailed(ret) == ret # 0

\* mlx4_destroy_cq(cq)
mlx4_destroy_cq(t, c) ==
    /\ pc[t] = "idle"
    /\ cq[c].st = "live"
    /\ ~CqInUse(c)
    /\ cqlock[c] = NoThread
    /\ \E ret \in {0, EFAIL} :
       /\ KernelUsesCq(c) => ret # 0
       /\ pc' = [pc EXCEPT ![t] = "done"]
       /\ call' = [call EXCEPT ![t] = [Enter(t, "destroy_cq", c) EXCEPT !.ret = ret]]
       /\ IF DestroyCqFailed(ret)
          THEN /\ log' = [log EXCEPT ![t] = <<Ev("cmd_destroy_cq", c, NULL, 0)>>]
               /\ UNCHANGED <<cq, dbs, bufs, badfree>>
          ELSE /\ log' = [log EXCEPT ![t] =
                     << Ev("cmd_destroy_cq", c, NULL, 0), Ev("free_db", c, NULL, cq[c].db),
                        Ev("free_buf", c, NULL, cq[c].buf), Ev("free", c, NULL, 0) >>]
               /\ dbs' = dbs \ {cq[c].db}
               /\ bufs' = bufs \ {cq[c].buf}
               /\ badfree' = (badfree \/ cq[c].db \notin dbs \/ cq[c].buf \notin bufs)
               /\ cq' = [cq EXCEPT ![c] = NoCq]
    /\ UNCHANGED <<cqlock, srq, qp, qp_table, kqp>>

(* ------------------------------------------------------------------ *)
(* Shared receive queues                                               *)
(* ------------------------------------------------------------------ *)

\* What mlx4_create_srq invokes up to the point named by `fail`.
CreateSrqLog(s, max, fail) ==
    LET m  == <<Ev("malloc", s, NULL, 0)>>
        b  == <<Ev("alloc_buf", s, NULL, max)>>
        d  == <<Ev("alloc_db", s, NULL, 0)>>
        k  == <<Ev("cmd_create_srq", s, NULL, 0)>>
        fd == <<Ev("free_db", s, NULL, 0)>>
        fb == <<Ev("free_buf", s, NULL, 0)>>
        fo == <<Ev("free", s, NULL, 0)>>
    IN CASE fail = "malloc" -> m
         [] fail = "spin"   -> m \o fo
         [] fail = "buf"    -> m \o b \o fo
         [] fail = "db"     -> m \o b \o d \o fb \o fo
         [] fail = "kernel" -> m \o b \o d \o k \o fd \o fb \o fo
         [] OTHER           -> m \o b \o d \o k

\* mlx4_create_srq(pd, attr); n: the SRQ number the kernel hands out
mlx4_create_srq(t, s, max_wr, max_sge, n) ==
    /\ pc[t] = "idle"
    /\ srq[s].st = "unalloc"
    /\ IF SrqSizeRejected(max_wr, max_sge)
       THEN /\ pc' = [pc EXCEPT ![t] = "done"]
            /\ call' = [call EXCEPT ![t] = [Enter(t, "create_srq", s)
                          EXCEPT !.cap.max_recv_wr = max_wr, !.cap.max_recv_sge = max_sge,
                                 !.ret = EFAIL]]
            /\ UNCHANGED <<log, srq, dbs, bufs>>
       ELSE \E fail \in {"none", "malloc", "spin", "buf", "db", "kernel"} :
            LET max == align_queue_size(max_wr, 1)
                ok  == fail = "none"
            IN /\ fail \in {"none", "kernel"} => (FreeBuf(s) # 0 /\ FreeDb(s) # 0)
               /\ fail = "db" => FreeBuf(s) # 0
               /\ ok => n \in FreeSrqns
               /\ pc' = [pc EXCEPT ![t] = "done"]
               /\ call' = [call EXCEPT ![t] =
                      [Enter(t, "create_srq", s)
                          EXCEPT !.cap.max_recv_wr = max_wr, !.cap.max_recv_sge = max_sge,
                                 !.ret = IF ok THEN 0 ELSE EFAIL]]
               /\ log' = [log EXCEPT ![t] = CreateSrqLog(s, max, fail)]
               /\ IF ok
                  THEN /\ srq' = [srq EXCEPT ![s] =
                             [st |-> "live", srqn |-> n, db |-> FreeDb(s),
                              buf |-> FreeBuf(s), max |-> max, max_gs |-> max_sge,
                              counter |-> 0]]
                       /\ dbs' = dbs \cup {FreeDb(s)}
                       /\ bufs' = bufs \cup {FreeBuf(s)}
                  ELSE UNCHANGED <<srq, dbs, bufs>>
    /\ UNCHANGED <<cq, cqlock, qp, qp_table, kqp, badfree>>

\* The application does not destroy an SRQ that one of its QPs still names.
SrqInUse(s) ==
    \/ \E q \in QPs : qp[q].st # "unalloc" /\ qp[q].srq = s
    \/ \E t \in Threads : pc[t] # "idle" /\ s \in {call[t].srq, call[t].obj}

\* mlx4_destroy_srq(srq)
mlx4_destroy_srq(t, s) ==
    /\ pc[t] = "idle"
    /\ srq[s].st = "live"
    /\ ~SrqInUse(s)
    /\ \E ret \in {0, EFAIL} :
       /\ KernelUsesSrq(s) => ret # 0
       /\ pc' = [pc EXCEPT ![t] = "done"]
       /\ call' = [call EXCEPT ![t] = [Enter(t, "destroy_srq", s) EXCEPT !.ret = ret]]
       /\ IF ret # 0
          THEN /\ log' = [log EXCEPT ![t] = <<Ev("cmd_destroy_srq", s, NULL, 0)>>]
               /\ UNCHANGED <<srq, dbs, bufs, badfree>>
          ELSE /\ log' = [log EXCEPT ![t] =
                     << Ev("cmd_destroy_srq", s, NULL, 0), Ev("free_db", s, NULL, srq[s].db),
                        Ev("free_buf", s, NULL, srq[s].buf), Ev("free", s, NULL, 0) >>]
               /\ dbs' = dbs \ {srq[s].db}
               /\ bufs' = bufs \ {srq[s].buf}
               /\ badfree' = (badfree \/ srq[s].db \notin dbs \/ srq[s].buf \notin bufs)
               /\ srq' = [srq EXCEPT ![s] = NoSrq]
    /\ UNCHANGED <<cq, cqlock, qp, qp_table, kqp>>

(* ------------------------------------------------------------------ *)
(* QP table (mlx4_store_qp / mlx4_clear_qp / mlx4_find_qp)             *)
(* ------------------------------------------------------------------ *)

\* mlx4_store_qp(ctx, qpn, qp): the table after the call; a failed insert
\* (the backing storage could not grow) leaves it as it was.
StoreQp(n, q, ok) == IF ok THEN [qp_table EXCEPT ![n] = q] ELSE qp_table

\* mlx4_clear_qp that leaves the entry where it is.
ClearQp_Keeps(n) == qp_table

\* mlx4_clear_qp(ctx, qpn)
ClearQp(n) == [qp_table EXCEPT ![n] = NULL]

(* ------------------------------------------------------------------ *)
(* Queue pairs: mlx4_create_qp                                         *)
(* ------------------------------------------------------------------ *)

\* What mlx4_create_qp invokes before the kernel command when the step named
\* by `fail` fails ("none": it reaches ibv_cmd_create_qp).
CreateQpLog(q, fail) ==
    LET m  == <<Ev("malloc", q, NULL, 0)>>
        b  == <<Ev("alloc_buf", q, NULL, 0)>>
        i  == <<Ev("init_qp_indices", q, NULL, 0)>>
        d  == <<Ev("alloc_db", q, NULL, 0)>>
        fb == <<Ev("free_buf", q, NULL, 0)>>
        fo == <<Ev("free", q, NULL, 0)>>
    IN CASE fail = "malloc" -> m
         [] fail = "buf"    -> m \o b \o fo
         [] fail = "spin"   -> m \o b \o i \o fb \o fo
         [] fail = "db"     -> m \o b \o i \o d \o fb \o fo
         [] OTHER           -> m \o b \o i \o d

\* An unwinding that releases the buffer before the doorbell record.
UnwindLog_BufFirst(q) ==
    << Ev("free_buf", q, NULL, qp[q].buf), Ev("free_db", q, NULL, qp[q].db),
       Ev("free", q, NULL, 0) >>

\* The unwinding from label err_rq_db on: mlx4_free_db, free of the wrid
\* arrays and mlx4_free_buf, free(qp).
UnwindLog(q) ==
    << Ev("free_db", q, NULL, qp[q].db), Ev("free_buf", q, NULL, qp[q].buf),
       Ev("free", q, NULL, 0) >>

\* A kernel QP that outlives the object it was created for keeps its
\* number but belongs to no object any more.
Disown(k, q) ==
    [n \in QPNs |-> IF k[n].obj = q THEN [k[n] EXCEPT !.obj = "ORPHAN"] ELSE k[n]]

\* lines 363-391: sanity check, malloc, aligned sizes, mlx4_alloc_qp_buf,
\* mlx4_init_qp_indices, the two pthread_spin_init, mlx4_alloc_db; on a
\* failure the labels err_free / err release what was taken and NULL returns.
create_qp_begin(t, q, cap, scq, rcq, s) ==
    /\ pc[t] = "idle"
    /\ qp[q].st = "unalloc"
    /\ ~InCall(q)
    /\ \A c \in CQs : \A e \in cq[c].entries : e.owner # q
    /\ cq[scq].st = "live" /\ cq[rcq].st = "live"
    /\ s # NULL => srq[s].st = "live"
    /\ LET frame == [Enter(t, "create_qp", q) EXCEPT
                        !.cap = cap, !.send_cq = scq, !.recv_cq = rcq, !.srq = s]
       IN IF QpSizeRejected(cap)
          THEN /\ pc' = [pc EXCEPT ![t] = "done"]
               /\ call' = [call EXCEPT ![t] = [frame EXCEPT !.ret = EFAIL]]
               /\ UNCHANGED <<log, qp, dbs, bufs>>
          ELSE \E fail \in {"none", "malloc", "buf", "spin", "db"} :
               /\ fail \in {"none", "spin", "db"} => FreeBuf(q) # 0
               /\ fail = "none" => FreeDb(q) # 0
               /\ log' = [log EXCEPT ![t] = CreateQpLog(q, fail)]
               /\ IF fail = "none"
                  THEN /\ pc' = [pc EXCEPT ![t] = "c_kcreate"]
                       /\ call' = [call EXCEPT ![t] = frame]
                       /\ qp' = [qp EXCEPT ![q] = InitQpIndices([NoQp EXCEPT
                              !.st = "alloc",
                              !.sq_max = align_queue_size(cap.max_send_wr, 0),
                              !.rq_max = align_queue_size(cap.max_recv_wr, 0),
                              !.buf = FreeBuf(q),
                              !.db = FreeDb(q)])]
                       /\ bufs' = bufs \cup {FreeBuf(q)}
                       /\ dbs' = dbs \cup {FreeDb(q)}
                  ELSE /\ pc' = [pc EXCEPT ![t] = "done"]
                       /\ call' = [call EXCEPT ![t] = [frame EXCEPT !.ret = EFAIL]]
                       /\ UNCHANGED <<qp, dbs, bufs>>
    /\ UNCHANGED <<cq, cqlock, srq, qp_table, kqp, badfree>>

\* lines 393-405: ibv_cmd_create_qp; the kernel picks the QP number n and
\* writes the capabilities it grants (rcap) back into attr->cap. On a
\* failure: labels err_rq_db, err_free, err (lines 426-437).
create_qp_cmd(t, rcap, n) ==
    LET q == call[t].obj
    IN /\ pc[t] = "c_kcreate"
       /\ \/ /\ Logged(t, <<Ev("cmd_create_qp", q, NULL, 0)>> \o UnwindLog(q))
             /\ dbs' = dbs \ {qp[q].db}
             /\ bufs' = bufs \ {qp[q].buf}
             /\ badfree' = (badfree \/ qp[q].db \notin dbs \/ qp[q].buf \notin bufs)
             /\ qp' = [qp EXCEPT ![q] = NoQp]
             /\ Returned(t, EFAIL)
             /\ UNCHANGED kqp
          \/ /\ n \in FreeQpns
             /\ Logged(t, <<Ev("cmd_create_qp", q, NULL, n)>>)
             /\ kqp' = [kqp EXCEPT ![n] =
                    [obj |-> q, send_cq |-> call[t].send_cq,
                     recv_cq |-> call[t].recv_cq, srq |-> call[t].srq,
                     state |-> "RESET", inflight |-> {}]]
             /\ qp' = [qp EXCEPT ![q].qpn = n,
                                 ![q].send_cq = call[t].send_cq,
                                 ![q].recv_cq = call[t].recv_cq,
                                 ![q].srq = call[t].srq]
             /\ call' = [call EXCEPT ![t].cap = rcap]
             /\ Goto(t, "c_store")
             /\ UNCHANGED <<dbs, bufs, badfree>>
       /\ UNCHANGED <<cq, cqlock, srq, qp_table>>

\* lines 407-421: mlx4_store_qp, then the sizes the kernel granted. On a
\* failed insert: label err_destroy (line 424), ibv_cmd_destroy_qp with its
\* result not looked at (kret), then err_rq_db, err_free, err.
create_qp_store(t) ==
    LET q == call[t].obj
        n == qp[q].qpn
    IN /\ pc[t] = "c_store"
       /\ \E ok \in BOOLEAN :
          /\ qp_table' = StoreQp(n, q, ok)
          /\ IF ok
             THEN /\ Logged(t, <<Ev("store_qp", q, NULL, n)>>)
                  /\ qp' = [qp EXCEPT ![q].st = "live",
                                      ![q].rq_max = call[t].cap.max_recv_wr,
                                      ![q].rq_max_gs = call[t].cap.max_recv_sge]
                  /\ Returned(t, 0)
                  /\ UNCHANGED <<kqp, dbs, bufs, badfree>>
             ELSE \E kret \in {0, EFAIL} :
                  /\ Logged(t, <<Ev("store_qp", q, NULL, n),
                                 Ev("cmd_destroy_qp", q, NULL, n)>> \o UnwindLog(q))
                  /\ kqp' = IF kret = 0 THEN [kqp EXCEPT ![n] = NoKqp]
                            ELSE Disown(kqp, q)
                  /\ dbs' = dbs \ {qp[q].db}
                  /\ bufs' = bufs \ {qp[q].buf}
                  /\ badfree' = (badfree \/ qp[q].db \notin dbs \/ qp[q].buf \notin bufs)
                  /\ qp' = [qp EXCEPT ![q] = NoQp]
                  /\ Returned(t, EFAIL)
       /\ UNCHANGED <<cq, cqlock, srq>>

(* ------------------------------------------------------------------ *)
(* Queue pairs: mlx4_modify_qp                                         *)
(* ------------------------------------------------------------------ *)

\* mlx4_cq_clean(c, qpn of q, srq of q) called by thread t, which goes on at l.
CleanCq(t, c, s, l) ==
    LET q == call[t].obj
    IN /\ Logged(t, <<Ev("cq_clean", c, s, qp[q].qpn)>>)
       /\ cq' = [cq EXCEPT ![c].entries = CleanedEntries(c, qp[q].qpn)]
       /\ Goto(t, l)

\* A reset test with the comparison of the target state inverted.
ModifyResets_AnyState(ret, has_state, new_state) ==
    ret = 0 /\ has_state /\ new_state # "RESET"

\* lines 457-459: the condition under which modify resets the local state
ModifyResets(ret, has_state, new_state) ==
    ret = 0 /\ has_state /\ new_state = "RESET"

\* line 455: ibv_cmd_modify_qp; has_state: attr_mask & IBV_QP_STATE
modify_qp_cmd(t, q, has_state, new_state) ==
    LET n == qp[q].qpn
    IN /\ pc[t] = "idle"
       /\ qp[q].st = "live"
       /\ ~InCall(q)
       /\ \E ret \in {0, EFAIL} :
          /\ kqp' = IF ret = 0 /\ has_state
                    THEN [kqp EXCEPT ![n].state = new_state,
                                     ![n].inflight = IF new_state = "RESET" THEN {} ELSE @]
                    ELSE kqp
          /\ call' = [call EXCEPT ![t] = [Enter(t, "modify_qp", q) EXCEPT
                          !.ret = ret,
                          !.reset = (has_state /\ new_state = "RESET")]]
          /\ pc' = [pc EXCEPT ![t] =
                 IF ModifyResets(ret, has_state, new_state) THEN "m_clean_r" ELSE "done"]
       /\ log' = [log EXCEPT ![t] = <<Ev("cmd_modify_qp", q, NULL, n)>>]
       /\ UNCHANGED <<cq, cqlock, srq, qp, qp_table, dbs, bufs, badfree>>

\* lines 460-461: mlx4_cq_clean(recv_cq, qp_num, srq)
modify_qp_clean_recv(t) ==
    LET q == call[t].obj
    IN /\ pc[t] = "m_clean_r"
       /\ CleanCq(t, qp[q].recv_cq, qp[q].srq,
                  IF qp[q].send_cq # qp[q].recv_cq THEN "m_clean_s" ELSE "m_init")
       /\ UNCHANGED <<call, cqlock, srq, qp, qp_table, kqp, dbs, bufs, badfree>>

\* lines 462-463: mlx4_cq_clean(send_cq, qp_num, NULL)
modify_qp_clean_send(t) ==
    LET q == call[t].obj
    IN /\ pc[t] = "m_clean_s"
       /\ CleanCq(t, qp[q].send_cq, NULL, "m_init")
       /\ UNCHANGED <<call, cqlock, srq, qp, qp_table, kqp, dbs, bufs, badfree>>

\* lines 465-468: mlx4_init_qp_indices; return ret
modify_qp_init(t) ==
    LET q == call[t].obj
    IN /\ pc[t] = "m_init"
       /\ Logged(t, <<Ev("init_qp_indices", q, NULL, 0)>>)
       /\ qp' = [qp EXCEPT ![q] = InitQpIndices(qp[q])]
       /\ pc' = [pc EXCEPT ![t] = "done"]
       /\ UNCHANGED <<call, cq, cqlock, srq, qp_table, kqp, dbs, bufs, badfree>>

(* ------------------------------------------------------------------ *)
(* mlx4_lock_cqs / mlx4_unlock_cqs                                     *)
(* ------------------------------------------------------------------ *)

\* mlx4_lock_cqs that always takes the send CQ's lock first.
LockOrder_SendFirst(q) ==
    IF qp[q].send_cq = qp[q].recv_cq THEN <<qp[q].send_cq>>
    ELSE <<qp[q].send_cq, qp[q].recv_cq>>

\* The CQ locks mlx4_lock_cqs takes for QP q, in the order it takes them.
LockOrder(q) ==
    LET send_cq == qp[q].send_cq
        recv_cq == qp[q].recv_cq
    IN IF send_cq = recv_cq THEN <<send_cq>>
       ELSE IF cq[send_cq].cqn < cq[recv_cq].cqn THEN <<send_cq, recv_cq>>
       ELSE <<recv_cq, send_cq>>

\* mlx4_unlock_cqs that drops the locks in the order they were taken.
UnlockOrder_SameOrder(q) ==
    LET send_cq == qp[q].send_cq
        recv_cq == qp[q].recv_cq
    IN IF send_cq = recv_cq THEN <<send_cq>>
       ELSE IF cq[send_cq].cqn < cq[recv_cq].cqn THEN <<send_cq, recv_cq>>
       ELSE <<recv_cq, send_cq>>

\* mlx4_unlock_cqs that drops the receive CQ's lock and no other.
UnlockOrder_RecvOnly(q) == <<qp[q].recv_cq>>

\* The CQ locks mlx4_unlock_cqs drops for QP q, in the order it drops them.
UnlockOrder(q) ==
    LET send_cq == qp[q].send_cq
        recv_cq == qp[q].recv_cq
    IN IF send_cq = recv_cq THEN <<send_cq>>
       ELSE IF cq[send_cq].cqn < cq[recv_cq].cqn THEN <<recv_cq, send_cq>>
       ELSE <<send_cq, recv_cq>>

\* pthread_spin_lock(&c->lock) by thread t, which goes on at l.
SpinLock(t, c, l) ==
    /\ cqlock[c] = NoThread
    /\ cqlock' = [cqlock EXCEPT ![c] = t]
    /\ Logged(t, <<Ev("lock", c, NULL, 0)>>)
    /\ Goto(t, l)

\* pthread_spin_unlock(&c->lock)
SpinUnlock(t, c, l) ==
    /\ cqlock' = [cqlock EXCEPT ![c] = NoThread]
    /\ Logged(t, <<Ev("unlock", c, NULL, 0)>>)
    /\ Goto(t, l)

\* mlx4_lock_cqs, first pthread_spin_lock
lock_cqs_first(t) ==
    LET q == call[t].obj
        order == LockOrder(q)
    IN /\ pc[t] = "lk1"
       /\ SpinLock(t, order[1],
                   IF Len(order) = 2 THEN "lk2"
                   ELSE IF call[t].relock THEN "d_store" ELSE "d_clear")
       /\ UNCHANGED <<call, cq, srq, qp, qp_table, kqp, dbs, bufs, badfree>>

\* mlx4_lock_cqs, second pthread_spin_lock
lock_cqs_second(t) ==
    LET q == call[t].obj
    IN /\ pc[t] = "lk2"
       /\ SpinLock(t, LockOrder(q)[2], IF call[t].relock THEN "d_store" ELSE "d_clear")
       /\ UNCHANGED <<call, cq, srq, qp, qp_table, kqp, dbs, bufs, badfree>>

\* mlx4_unlock_cqs, first pthread_spin_unlock
unlock_cqs_first(t) ==
    LET q == call[t].obj
        order == UnlockOrder(q)
    IN /\ pc[t] = "ul1"
       /\ SpinUnlock(t, order[1],
                     IF Len(order) = 2 THEN "ul2"
                     ELSE IF call[t].relock THEN "done" ELSE "d_kdestroy")
       /\ UNCHANGED <<call, cq, srq, qp, qp_table, kqp, dbs, bufs, badfree>>

\* mlx4_unlock_cqs, second pthread_spin_unlock
unlock_cqs_second(t) ==
    LET q == call[t].obj
    IN /\ pc[t] = "ul2"
       /\ SpinUnlock(t, UnlockOrder(q)[2], IF call[t].relock THEN "done" ELSE "d_kdestroy")
       /\ UNCHANGED <<call, cq, srq, qp, qp_table, kqp, dbs, bufs, badfree>>

(* ------------------------------------------------------------------ *)
(* Queue pairs: mlx4_destroy_qp                                        *)
(* ------------------------------------------------------------------ *)

\* A destroy that cleans the send CQ whether or not it is the receive CQ.
DestroyCleansSend_Always(q) == TRUE

\* line 510: "if (ibqp->send_cq != ibqp->recv_cq)"
DestroyCleansSend(q) == qp[q].send_cq # qp[q].recv_cq

\* lines 505-509: mlx4_cq_clean(recv_cq, qp_num, srq)
destroy_qp_clean_recv(t, q) ==
    /\ pc[t] = "idle"
    /\ qp[q].st = "live"
    /\ ~InCall(q)
    /\ call' = [call EXCEPT ![t] = Enter(t, "destroy_qp", q)]
    /\ log' = [log EXCEPT ![t] = <<Ev("cq_clean", qp[q].recv_cq, qp[q].srq, qp[q].qpn)>>]
    /\ cq' = [cq EXCEPT ![qp[q].recv_cq].entries = CleanedEntries(qp[q].recv_cq, qp[q].qpn)]
    /\ Goto(t, IF DestroyCleansSend(q) THEN "d_clean_s" ELSE "lk1")
    /\ UNCHANGED <<cqlock, srq, qp, qp_table, kqp, dbs, bufs, badfree>>

\* lines 510-511: mlx4_cq_clean(send_cq, qp_num, NULL)
destroy_qp_clean_send(t) ==
    LET q == call[t].obj
    IN /\ pc[t] = "d_clean_s"
       /\ CleanCq(t, qp[q].send_cq, NULL, "lk1")
       /\ UNCHANGED <<call, cqlock, srq, qp, qp_table, kqp, dbs, bufs, badfree>>

\* line 514: mlx4_clear_qp, between mlx4_lock_cqs and mlx4_unlock_cqs
destroy_qp_clear(t) ==
    LET q == call[t].obj
    IN /\ pc[t] = "d_clear"
       /\ Logged(t, <<Ev("clear_qp", q, NULL, qp[q].qpn)>>)
       /\ qp_table' = ClearQp(qp[q].qpn)
       /\ Goto(t, "ul1")
       /\ UNCHANGED <<call, cq, cqlock, srq, qp, kqp, dbs, bufs, badfree>>

\* lines 517-518: ibv_cmd_destroy_qp and the test of its result
destroy_qp_cmd(t) ==
    LET q == call[t].obj
        n == qp[q].qpn
    IN /\ pc[t] = "d_kdestroy"
       /\ Logged(t, <<Ev("cmd_destroy_qp", q, NULL, n)>>)
       /\ \E ret \in {0, EFAIL} :
          IF ret = 0
          THEN /\ kqp' = [kqp EXCEPT ![n] = NoKqp]
               /\ Goto(t, "d_free")
               /\ UNCHANGED call
          ELSE /\ call' = [call EXCEPT ![t].ret = ret, ![t].relock = TRUE]
               /\ Goto(t, "lk1")
               /\ UNCHANGED kqp
       /\ UNCHANGED <<cq, cqlock, srq, qp, qp_table, dbs, bufs, badfree>>

\* line 520: mlx4_store_qp on the failure path, its result is not looked at
destroy_qp_restore(t) ==
    LET q == call[t].obj
    IN /\ pc[t] = "d_store"
       /\ Logged(t, <<Ev("store_qp", q, NULL, qp[q].qpn)>>)
       /\ \E ok \in BOOLEAN : qp_table' = StoreQp(qp[q].qpn, q, ok)
       /\ Goto(t, "ul1")
       /\ UNCHANGED <<call, cq, cqlock, srq, qp, kqp, dbs, bufs, badfree>>

\* lines 526-532: mlx4_free_db, free of the wrid arrays, mlx4_free_buf,
\* free(qp); return 0
destroy_qp_free(t) ==
    LET q == call[t].obj
    IN /\ pc[t] = "d_free"
       /\ Logged(t, UnwindLog(q))
       /\ dbs' = dbs \ {qp[q].db}
       /\ bufs' = bufs \ {qp[q].buf}
       /\ badfree' = (badfree \/ qp[q].db \notin dbs \/ qp[q].buf \notin bufs)
       /\ qp' = [qp EXCEPT ![q] = NoQp]
       /\ Returned(t, 0)
       /\ UNCHANGED <<cq, cqlock, srq, qp_table, kqp>>

(* ------------------------------------------------------------------ *)
(* Data path seen from verbs.c: posting, hardware, polling             *)
(* ------------------------------------------------------------------ *)

\* The application posts a work request on one side of a QP it is not
\* modifying or destroying; the producer index of that side advances.
post(t, q, side) ==
    LET n == qp[q].qpn
    IN /\ pc[t] = "idle"
       /\ qp[q].st = "live"
       /\ ~InCall(q)
       /\ side = "rq" => qp[q].srq = NULL
       /\ IF side = "sq"
          THEN /\ qp[q].sq_head < MaxIdx
               /\ qp' = [qp EXCEPT ![q].sq_head = @ + 1]
          ELSE /\ qp[q].rq_head < MaxIdx
               /\ qp' = [qp EXCEPT ![q].rq_head = @ + 1]
       /\ kqp' = [kqp EXCEPT ![n].inflight = @ \cup {side}]
       /\ UNCHANGED <<pc, call, log, cq, cqlock, srq, qp_table, dbs, bufs, badfree>>

\* The hardware completes an outstanding work request of kernel QP n and
\* writes a completion entry tagged n into the CQ of that side.
hw_complete(n, side) ==
    LET c == IF side = "sq" THEN kqp[n].send_cq ELSE kqp[n].recv_cq
    IN /\ kqp[n] # NoKqp
       /\ kqp[n].state = "RTS"
       /\ side \in kqp[n].inflight
       /\ kqp' = [kqp EXCEPT ![n].inflight = @ \ {side}]
       /\ cq' = [cq EXCEPT ![c].entries = @ \cup {Cqe(n, kqp[n].obj)}]
       /\ UNCHANGED <<pc, call, log, cqlock, srq, qp, qp_table, dbs, bufs, badfree>>

\* A thread polls CQ c under the CQ lock and is handed one completion entry.
poll_cq(t, c) ==
    /\ pc[t] = "idle"
    /\ cq[c].st = "live"
    /\ cqlock[c] = NoThread
    /\ \E e \in cq[c].entries :
       /\ cq' = [cq EXCEPT ![c].entries = @ \ {e}]
       /\ call' = [call EXCEPT ![t] = [Enter(t, "poll_cq", c) EXCEPT
                       !.ent = e.qpn, !.who = e.owner]]
    /\ pc' = [pc EXCEPT ![t] = "done"]
    /\ UNCHANGED <<log, cqlock, srq, qp, qp_table, kqp, dbs, bufs, badfree>>

(* ------------------------------------------------------------------ *)
(* Inputs and specifications                                           *)
(* ------------------------------------------------------------------ *)

Cap(sw, rw, ss, rs, inl) ==
    [max_send_wr |-> sw, max_recv_wr |-> rw, max_send_sge |-> ss,
     max_recv_sge |-> rs, max_inline_data |-> inl]

\* What ibv_cmd_create_qp may leave in attr->cap: the request as it was, or
\* the depths as the kernel rounds them.
Granted(cap) ==
    { cap,
      [cap EXCEPT !.max_send_wr = align_queue_size(cap.max_send_wr, 0),
                  !.max_recv_wr = align_queue_size(cap.max_recv_wr, 0)] }

\* The steps inside the QP calls of thread t.
QpStep(t, qpns) ==
    \/ (\E rcap \in Granted(call[t].cap), n \in qpns : create_qp_cmd(t, rcap, n))
    \/ create_qp_store(t)
    \/ modify_qp_clean_recv(t) \/ modify_qp_clean_send(t) \/ modify_qp_init(t)
    \/ lock_cqs_first(t) \/ lock_cqs_second(t)
    \/ unlock_cqs_first(t) \/ unlock_cqs_second(t)
    \/ destroy_qp_clean_send(t) \/ destroy_qp_clear(t) \/ destroy_qp_cmd(t)
    \/ destroy_qp_restore(t) \/ destroy_qp_free(t)

\* Requests made by the threads of the concurrent specifications.
SmallCaps == {Cap(4, 4, 1, 1, 0)}

\* The QP object a thread works on: each thread creates, modifies and
\* destroys a QP of its own.
Own(t) == IF t = "t1" THEN "qp1" ELSE "qp2"

\* A context in which the application has already created both CQs (and,
\* with_srq, the SRQ).
InitWith(with_srq) ==
    /\ pc = [t \in Threads |-> "idle"]
    /\ call = [t \in Threads |-> NoCall]
    /\ log = [t \in Threads |-> <<>>]
    /\ cq = [c \in CQs |->
               [st |-> "live", cqn |-> IF c = "cq1" THEN 1 ELSE 2,
                db |-> IF c = "cq1" THEN 1 ELSE 2, buf |-> IF c = "cq1" THEN 1 ELSE 2,
                nent |-> 128, cons_index |-> 0, arm_sn |-> 1, entries |-> {}]]
    /\ cqlock = [c \in CQs |-> NoThread]
    /\ srq = [s \in SRQs |->
               IF with_srq
               THEN [st |-> "live", srqn |-> 1, db |-> 3, buf |-> 3,
                     max |-> 16, max_gs |-> 1, counter |-> 0]
               ELSE NoSrq]
    /\ qp = [q \in QPs |-> NoQp]
    /\ qp_table = [n \in QPNs |-> NULL]
    /\ kqp = [n \in QPNs |-> NoKqp]
    /\ dbs = IF with_srq THEN {1, 2, 3} ELSE {1, 2}
    /\ bufs = IF with_srq THEN {1, 2, 3} ELSE {1, 2}
    /\ badfree = FALSE

InitCqs == InitWith(FALSE)
InitData == InitWith(TRUE)

\* Two threads, each creating, modifying and destroying its own QP on the
\* two CQs, in every interleaving and with every kernel and table outcome.
Next ==
    \E t \in Threads :
       \/ Return(t)
       \/ QpStep(t, QPNs)
       \/ (\E cap \in SmallCaps, scq \in CQs, rcq \in CQs :
              create_qp_begin(t, Own(t), cap, scq, rcq, NULL))
       \/ (\E has_state \in BOOLEAN :
              modify_qp_cmd(t, Own(t), has_state, "RESET"))
       \/ destroy_qp_clean_recv(t, Own(t))

Spec == InitCqs /\ [][Next]_vars

\* Thread t1 creates, modifies and destroys one QP (with or without the SRQ)
\* and posts work on it; the hardware completes the work; thread t2 polls
\* the CQs.
ModifyInputs == {<<FALSE, "RTS">>, <<TRUE, "RTS">>, <<TRUE, "RESET">>}

NextData ==
    \/ \E t \in Threads : Return(t)
    \/ QpStep("t1", QPNs)
    \/ \E c \in CQs : poll_cq("t2", c)
    \/ \E cap \in SmallCaps, rcq \in CQs, s \in SRQs \cup {NULL} :
          create_qp_begin("t1", "qp1", cap, "cq1", rcq, s)
    \/ \E m \in ModifyInputs : modify_qp_cmd("t1", "qp1", m[1], m[2])
    \/ destroy_qp_clean_recv("t1", "qp1")
    \/ \E side \in Sides : post("t1", "qp1", side)
    \/ \E n \in QPNs, side \in Sides : hw_complete(n, side)

SpecData == InitData /\ [][NextData]_vars

\* One thread going through every create and destroy call, with requests
\* at and beyond the limits of the sanity checks; the kernel hands out the
\* lowest free number.
LifeCqes == {MaxCqe, MaxCqe + 1}
LifeSrqAttrs == {<<MaxSrqWr, MaxSrqSge>>, <<MaxSrqWr + 1, 1>>, <<16, MaxSrqSge + 1>>}
LifeCaps ==
    { Cap(MaxSendWr, MaxRecvWr, MaxSendSge, MaxRecvSge, MaxInline),
      Cap(MaxSendWr + 1, 4, 1, 1, 0),
      Cap(4, MaxRecvWr + 1, 1, 1, 0),
      Cap(4, 4, MaxSendSge + 1, 1, 0),
      Cap(4, 4, 1, MaxRecvSge + 1, 0),
      Cap(4, 4, 1, 1, MaxInline + 1) }

Lowest(S) == IF S = {} THEN {} ELSE {Min(S)}

NextLife ==
    \E t \in {"t1"} :
       \/ Return(t)
       \/ QpStep(t, Lowest(FreeQpns))
       \/ \E c \in CQs :
          \/ (\E cqe \in LifeCqes, n \in Lowest(FreeCqns) : mlx4_create_cq(t, c, cqe, n))
          \/ mlx4_resize_cq(t, c)
          \/ mlx4_destroy_cq(t, c)
       \/ \E s \in SRQs :
          \/ (\E a \in LifeSrqAttrs, n \in Lowest(FreeSrqns) :
                 mlx4_create_srq(t, s, a[1], a[2], n))
          \/ mlx4_destroy_srq(t, s)
       \/ (\E cap \in LifeCaps, scq \in CQs, rcq \in CQs, s \in SRQs \cup {NULL} :
              create_qp_begin(t, "qp1", cap, scq, rcq, s))
       \/ (\E has_state \in BOOLEAN : modify_qp_cmd(t, "qp1", has_state, "RESET"))
       \/ destroy_qp_clean_recv(t, "qp1")

SpecLife == Init /\ [][NextLife]_vars

\* One thread creating and destroying one CQ, one SRQ and one QP with the
\* requested depths ranging over every small value and the values around
\* the limits of the sanity checks.
MaxDepth == 9
SizeCqes == (0..MaxDepth) \cup {100, 128, MaxCqe - 1, MaxCqe, MaxCqe + 1}
SizeSrqWrs == (0..MaxDepth) \cup {MaxSrqWr - 1, MaxSrqWr, MaxSrqWr + 1}
SizeSrqSges == {1, MaxSrqSge}
SizeCaps ==
    {Cap(d, d, 1, 1, 0) : d \in (0..MaxDepth) \cup {MaxSendWr - 1, MaxSendWr}}

NextSizes ==
    \E t \in {"t1"} :
       \/ Return(t)
       \/ (\E rcap \in Granted(call[t].cap) : create_qp_cmd(t, rcap, 1))
       \/ create_qp_store(t)
       \/ (\E cqe \in SizeCqes : mlx4_create_cq(t, "cq1", cqe, 1))
       \/ mlx4_destroy_cq(t, "cq1")
       \/ (\E wr \in SizeSrqWrs, sge \in SizeSrqSges :
              mlx4_create_srq(t, "srq1", wr, sge, 1))
       \/ mlx4_destroy_srq(t, "srq1")
       \/ (\E cap \in SizeCaps, s \in SRQs \cup {NULL} :
              create_qp_begin(t, "qp1", cap, "cq1", "cq1", s))
       \/ destroy_qp_clean_recv(t, "qp1")
       \/ lock_cqs_first(t) \/ unlock_cqs_first(t)
       \/ destroy_qp_clear(t) \/ destroy_qp_cmd(t)
       \/ destroy_qp_restore(t) \/ destroy_qp_free(t)

SpecSizes == Init /\ [][NextSizes]_vars

(* ================================================================== *)
(* Properties                                                          *)
(* ================================================================== *)

\* Thread t has returned from a call of operation op.
Done(t, op) == pc[t] = "done" /\ call[t].op = op

\* The events of log l that are calls of one of the functions fs.
RECURSIVE Only(_, _)
Only(l, fs) ==
    IF l = <<>> THEN <<>>
    ELSE IF Head(l).f \in fs THEN <<Head(l)>> \o Only(Tail(l), fs)
    ELSE Only(Tail(l), fs)

Names(l) == [i \in DOMAIN l |-> l[i].f]

IsPrefix(a, b) == Len(a) <= Len(b) /\ \A i \in DOMAIN a : a[i] = b[i]

(* ------------------------------------------------------------------ *)
\* C1: a QP destroy whose kernel destroy command fails returns the nonzero
\* error, leaves the QP number mapped to the same QP object in the QP table
\* when it returns, and releases neither doorbell, buffer nor object.
C1_FailedDestroyKeepsQp ==
    \A t \in Threads :
       (Done(t, "destroy_qp") /\ call[t].relock) =>
          LET q == call[t].obj
          IN /\ call[t].ret # 0
             /\ qp[q].st = "live"
             /\ qp_table[qp[q].qpn] = q
             /\ qp[q].db \in dbs /\ qp[q].buf \in bufs
             /\ Only(log[t], {"free_db", "free_buf", "free"}) = <<>>

(* ------------------------------------------------------------------ *)
\* Thread t is handed completion entry e of CQ c by a poll in this step.
PollSurfaces(t, c, e) ==
    /\ pc[t] = "idle" /\ pc'[t] = "done"
    /\ call'[t].op = "poll_cq" /\ call'[t].obj = c
    /\ call'[t].ent = e.qpn /\ call'[t].who = e.owner

\* C2: once QP destroy has returned success for a queue pair, no later poll
\* of a CQ surfaces a completion entry of that queue pair.
C2_NoStaleCompletion ==
    [][\A t \in Threads, c \in CQs : \A e \in cq[c].entries :
          PollSurfaces(t, c, e) => qp[e.owner].st # "unalloc"]_vars

(* ------------------------------------------------------------------ *)
\* Thread t spins on a CQ lock that is held.
WantedLock(t) == LockOrder(call[t].obj)[IF pc[t] = "lk1" THEN 1 ELSE 2]
Blocked(t) == pc[t] \in {"lk1", "lk2"} /\ cqlock[WantedLock(t)] # NoThread

Section(q) ==
    LET a == qp[q].send_cq
        b == qp[q].recv_cq
        lo == IF cq[a].cqn < cq[b].cqn THEN a ELSE b
        hi == IF cq[a].cqn < cq[b].cqn THEN b ELSE a
    IN IF a = b
       THEN << <<"lock", a>>, <<"unlock", a>> >>
       ELSE << <<"lock", lo>>, <<"lock", hi>>, <<"unlock", hi>>, <<"unlock", lo>> >>

LockCalls(t) ==
    LET l == Only(log[t], {"lock", "unlock"})
    IN [i \in DOMAIN l |-> <<l[i].f, l[i].a>>]

\* C4: the CQ locks of a QP are taken once if both CQs are the same object,
\* otherwise smaller CQ number first, and released in the reverse order,
\* around the table removal and around the re-insertion alike.
C4_LockOrder ==
    \A t \in Threads :
       (call[t].op = "destroy_qp" /\ qp[call[t].obj].st # "unalloc") =>
          LET q == call[t].obj
          IN /\ IsPrefix(LockCalls(t), Section(q) \o Section(q))
             /\ pc[t] \in {"d_clear", "d_store"} =>
                   Len(LockCalls(t)) \in {Len(Section(q)) \div 2,
                                          Len(Section(q)) + Len(Section(q)) \div 2}
             /\ pc[t] \in {"d_kdestroy", "d_free"} => LockCalls(t) = Section(q)
             /\ (pc[t] = "done" /\ call[t].relock) =>
                   LockCalls(t) = Section(q) \o Section(q)

\* A failed destroy of a QP whose send CQ has the larger number has returned.
C4_Witness ==
    \E t \in Threads :
       /\ Done(t, "destroy_qp") /\ call[t].relock
       /\ qp[call[t].obj].send_cq # qp[call[t].obj].recv_cq
       /\ cq[qp[call[t].obj].send_cq].cqn > cq[qp[call[t].obj].recv_cq].cqn

(* ------------------------------------------------------------------ *)
\* C5: every live QP (created, not yet destroyed with success) has its
\* number mapped in the QP table to exactly that object, at any time.
C5_LiveQpMapped ==
    \A q \in QPs : qp[q].st = "live" => qp_table[qp[q].qpn] = q

(* ------------------------------------------------------------------ *)
\* C6: when QP create returns its error after the kernel create succeeded
\* and the QP table insert failed, the kernel QP it had created no longer
\* exists, whatever the kernel destroy on that path answered.
C6_NoOrphanKernelQp ==
    \A t \in Threads :
       (Done(t, "create_qp") /\ call[t].ret # 0) =>
          \A i \in DOMAIN log[t] :
             log[t][i].f = "store_qp" => kqp[log[t][i].n] = NoKqp

(* ------------------------------------------------------------------ *)
\* The queue objects and what they hold.
Objs == CQs \cup SRQs \cup QPs
Obj(o) == IF o \in CQs THEN cq[o] ELSE IF o \in SRQs THEN srq[o] ELSE qp[o]
Held ==  {o \in Objs : Obj(o).st # "unalloc"}
OwnedDbs  == {Obj(o).db : o \in Held}
OwnedBufs == {Obj(o).buf : o \in Held}

Releases == {"free_db", "free_buf", "free"}

\* The releases a failed mlx4_create_qp owes, from what its log shows it
\* acquired: the doorbell record once the kernel command was reached, the
\* buffer once the indices were initialised, the object once the buffer
\* allocator was called.
OwedReleases(l) ==
    LET f == {l[i].f : i \in DOMAIN l}
    IN IF "cmd_create_qp" \in f THEN <<"free_db", "free_buf", "free">>
       ELSE IF "init_qp_indices" \in f THEN <<"free_buf", "free">>
       ELSE IF "alloc_buf" \in f THEN <<"free">>
       ELSE <<>>

\* C7: a QP create that fails after partial allocation returns NULL with
\* every allocation released exactly once, doorbell then buffer then object,
\* after everything else it did, and with the allocated doorbells and buffers
\* being those of the other objects again.
C7_CreateQpUnwinds ==
    \A t \in Threads :
       (Done(t, "create_qp") /\ call[t].ret # 0 /\ log[t] # <<>>) =>
          LET q == call[t].obj
              owed == OwedReleases(log[t])
              k == Len(log[t]) - Len(owed)
          IN /\ Names(Only(log[t], Releases)) = owed
             /\ \A i \in DOMAIN log[t] : i > k <=> log[t][i].f \in Releases
             /\ qp[q] = NoQp
             /\ q \notin {qp_table[n] : n \in QPNs}
             /\ dbs = OwnedDbs /\ bufs = OwnedBufs
             /\ ~badfree

\* A create that failed at the table insert, the last point of failure.
C7_Witness ==
    \E t \in Threads :
       /\ Done(t, "create_qp") /\ call[t].ret # 0
       /\ \E i \in DOMAIN log[t] : log[t][i].f = "store_qp"
       /\ Held # {}

(* ------------------------------------------------------------------ *)
\* C8: a create with an out-of-range attribute returns NULL without having
\* called the buffer allocator, the doorbell allocator, the QP table or the
\* kernel; a create whose attributes are all within the limits is not
\* rejected.
C8_SanityCheck ==
    \A t \in Threads :
       LET a == call[t].cap
           rejected == call[t].ret # 0 /\ log[t] = <<>>
       IN /\ Done(t, "create_qp") =>
                (rejected <=> (\/ a.max_send_wr > 65536 \/ a.max_recv_wr > 65536
                               \/ a.max_send_sge > 64 \/ a.max_recv_sge > 64
                               \/ a.max_inline_data > 1024))
          /\ Done(t, "create_srq") =>
                (rejected <=> (a.max_recv_wr > 65536 \/ a.max_recv_sge > 64))
          /\ Done(t, "create_cq") => (rejected <=> call[t].ent > MaxCqe)
          /\ (pc[t] = "done" /\ rejected
                 /\ call[t].op \in {"create_qp", "create_srq", "create_cq"}) =>
                /\ Obj(call[t].obj).st = "unalloc"
                /\ dbs = OwnedDbs /\ bufs = OwnedBufs

\* A QP create rejected for its inline-data size alone.
C8_Witness ==
    \E t \in Threads :
       /\ Done(t, "create_qp") /\ call[t].ret # 0 /\ log[t] = <<>>
       /\ call[t].cap.max_inline_data = 1025
       /\ call[t].cap.max_send_wr <= 65536 /\ call[t].cap.max_recv_wr <= 65536
       /\ call[t].cap.max_send_sge <= 64 /\ call[t].cap.max_recv_sge <= 64

(* ------------------------------------------------------------------ *)
\* What holds of a QP when a successful modify to RESET has returned.
C9_AtReturn ==
    \A t \in Threads :
       (Done(t, "modify_qp") /\ call[t].reset /\ call[t].ret = 0) =>
          LET q == call[t].obj
              n == qp[q].qpn
              r == Ev("cq_clean", qp[q].recv_cq, qp[q].srq, n)
              s == Ev("cq_clean", qp[q].send_cq, NULL, n)
          IN /\ qp[q].sq_head = 0 /\ qp[q].sq_tail = 0
             /\ qp[q].rq_head = 0 /\ qp[q].rq_tail = 0
             /\ Only(log[t], {"cq_clean"}) =
                   IF qp[q].send_cq = qp[q].recv_cq THEN <<r>> ELSE <<r, s>>
             /\ \A c \in {qp[q].send_cq, qp[q].recv_cq} :
                   \A e \in cq[c].entries : e.qpn # n

\* C9: when a modify with the state attribute, target state RESET and a
\* successful kernel call returns, the four queue indices are zero, the
\* receive CQ was cleaned of this QP number (with the QP's SRQ), the send
\* CQ was cleaned too if it is another CQ, and no step of the call changed
\* the buffer or the doorbell record of the QP.
C9_ModifyReset ==
    [][/\ C9_AtReturn'
       /\ \A t \in Threads :
             call'[t].op = "modify_qp" =>
                /\ qp'[call'[t].obj].db = qp[call'[t].obj].db
                /\ qp'[call'[t].obj].buf = qp[call'[t].obj].buf]_vars

\* A successful reset of a QP with an SRQ and two different CQs has returned.
C9_Witness ==
    \E t \in Threads :
       /\ Done(t, "modify_qp") /\ call[t].reset /\ call[t].ret = 0
       /\ qp[call[t].obj].send_cq # qp[call[t].obj].recv_cq
       /\ qp[call[t].obj].srq # NULL

(* ------------------------------------------------------------------ *)
DestroyOps == {"destroy_cq", "destroy_srq", "destroy_qp"}

\* C10: the doorbell record and the buffer of a queue object are released
\* exactly when its kernel destroy succeeded or its create failed: the
\* allocated ones are always those of the objects that exist, each owned by
\* one object; a destroy whose kernel command failed has released nothing
\* and left the object in place, one whose kernel command succeeded has
\* released doorbell, buffer and object once; nothing is released twice.
C10_ReleaseOnKernelDestroy ==
    /\ dbs = OwnedDbs /\ bufs = OwnedBufs
    /\ ~badfree
    /\ \A o1, o2 \in Held :
          o1 # o2 => Obj(o1).db # Obj(o2).db /\ Obj(o1).buf # Obj(o2).buf
    /\ \A t \in Threads :
          (pc[t] = "done" /\ call[t].op \in DestroyOps) =>
             LET o == call[t].obj
                 rel == Only(log[t], Releases)
             IN IF call[t].ret # 0
                THEN /\ Obj(o).st = "live"
                     /\ Obj(o).db \in dbs /\ Obj(o).buf \in bufs
                     /\ rel = <<>>
                ELSE /\ Obj(o).st = "unalloc"
                     /\ Names(rel) = <<"free_db", "free_buf", "free">>
                     /\ rel[1].n \notin dbs /\ rel[2].n \notin bufs

\* A CQ destroy whose kernel command failed has returned while other queue
\* objects exist.
C10_Witness ==
    \E t \in Threads :
       /\ Done(t, "destroy_cq") /\ call[t].ret # 0
       /\ Cardinality(Held) >= 3

(* ------------------------------------------------------------------ *)
IsPow2(n) == \E k \in 0..24 : n = 2^k

\* r is the smallest power of two that is at least x.
SmallestPow2AtLeast(r, x) == IsPow2(r) /\ r >= x /\ (r = 1 \/ r \div 2 < x)

\* What the claim has the rounding of depth d with `spare` return.
RoundedAs(r, d, spare) ==
    IF d = 0 THEN r = 0 ELSE SmallestPow2AtLeast(r, d + spare)

\* C11: the queue rounding returns 0 for depth 0 and otherwise the smallest
\* power of two that is at least depth + spare, with spare 1 where an SRQ
\* is sized and spare 0 where the two sides of a QP are sized.
C11_QueueRounding ==
    \A t \in Threads :
       /\ (Done(t, "create_srq") /\ call[t].ret = 0) =>
             RoundedAs(srq[call[t].obj].max, call[t].cap.max_recv_wr, 1)
       /\ (pc[t] = "c_kcreate") =>
             /\ RoundedAs(qp[call[t].obj].sq_max, call[t].cap.max_send_wr, 0)
             /\ RoundedAs(qp[call[t].obj].rq_max, call[t].cap.max_recv_wr, 0)

\* An SRQ was created for a depth that is itself a power of two.
C11_Witness ==
    \E t \in Threads :
       /\ Done(t, "create_srq") /\ call[t].ret = 0
       /\ call[t].cap.max_recv_wr = 8 /\ srq[call[t].obj].max = 16

(* ------------------------------------------------------------------ *)
\* The ring size in the buffer allocation and the depth argument of the
\* kernel command of a CQ create, as the calls of the create show them.
CqRing(t) == Only(log[t], {"alloc_buf"})[1].n
CqKernelArg(t) == Only(log[t], {"cmd_create_cq"})[1].n

CqCreated(t) == Done(t, "create_cq") /\ call[t].ret = 0
CqRejected(t) == Done(t, "create_cq") /\ call[t].ret # 0 /\ log[t] = <<>>

\* C12 as claimed: an accepted depth d is rounded to the smallest power of
\* two N that is at least d, the ring has N entries and the kernel gets N - 1.
C12_RoundsToAtLeast ==
    \A t \in Threads :
       CqCreated(t) =>
          /\ SmallestPow2AtLeast(cq[call[t].obj].nent, call[t].ent)
          /\ CqRing(t) = cq[call[t].obj].nent
          /\ CqKernelArg(t) = cq[call[t].obj].nent - 1

\* C12, amended: an accepted depth d is rounded to the smallest power of two
\* N that is greater than d, the ring has N entries and the kernel gets
\* N - 1 as its depth argument (d = 100: ring 128, argument 127).
C12_RoundsAbove ==
    \A t \in Threads :
       CqCreated(t) =>
          /\ SmallestPow2AtLeast(cq[call[t].obj].nent, call[t].ent + 1)
          /\ CqRing(t) = cq[call[t].obj].nent
          /\ CqKernelArg(t) = cq[call[t].obj].nent - 1
          /\ call[t].ent = 100 => (CqRing(t) = 128 /\ CqKernelArg(t) = 127)

\* A CQ was created for depth 128.
C12_Witness ==
    \E t \in Threads :
       CqCreated(t) /\ call[t].ent = 128 /\ cq[call[t].obj].nent = 256

(* ------------------------------------------------------------------ *)
\* C13 as claimed: the ring of a created CQ is a power of two, at least
\* the requested depth and at most 2^22, and a depth is rejected only if it
\* exceeds 2^22.
C13_RingWithinLimit ==
    \A t \in Threads :
       /\ CqCreated(t) =>
             /\ IsPow2(cq[call[t].obj].nent)
             /\ cq[call[t].obj].nent >= call[t].ent
             /\ cq[call[t].obj].nent <= 2^22
       /\ CqRejected(t) => call[t].ent > 2^22

\* C13, amended: the ring of a created CQ is a power of two, at least the
\* requested depth and at most 2^22, and a depth is rejected only if it is
\* 2^22 or more.
C13_RingWithinLimitFrom2p22 ==
    \A t \in Threads :
       /\ CqCreated(t) =>
             /\ IsPow2(cq[call[t].obj].nent)
             /\ cq[call[t].obj].nent >= call[t].ent
             /\ cq[call[t].obj].nent <= 2^22
       /\ CqRejected(t) => call[t].ent >= 2^22

\* A CQ was created for the largest depth the sanity check accepts.
C13_Witness ==
    \E t \in Threads :
       CqCreated(t) /\ call[t].ent = 2^22 - 1 /\ cq[call[t].obj].nent = 2^22

(* ------------------------------------------------------------------ *)
\* The calls of thread t as pairs of the function and its first argument.
Calls(t) == [i \in DOMAIN log[t] |-> <<log[t][i].f, log[t][i].a>>]

\* The calls a destroy of QP q makes up to the kernel command, in the order
\* the claim gives them.
DestroyOrder(q) ==
    LET r == qp[q].recv_cq
        s == qp[q].send_cq
        sec == Section(q)
        half == Len(sec) \div 2
    IN (IF s = r THEN << <<"cq_clean", r>> >>
        ELSE << <<"cq_clean", r>>, <<"cq_clean", s>> >>)
       \o SubSeq(sec, 1, half)
       \o << <<"clear_qp", q>> >>
       \o SubSeq(sec, half + 1, Len(sec))
       \o << <<"cmd_destroy_qp", q>> >>

\* C14: a QP destroy cleans the receive CQ of the QP number (with the SRQ),
\* then the send CQ if and only if it is another CQ, then removes the number
\* from the QP table with the CQ locks held, and issues the kernel destroy
\* only after the locks are dropped and with the number absent from the
\* table.
C14_DestroyOrder ==
    \A t \in Threads :
       (call[t].op = "destroy_qp" /\ qp[call[t].obj].st # "unalloc") =>
          LET q == call[t].obj
              n == qp[q].qpn
              r == Ev("cq_clean", qp[q].recv_cq, qp[q].srq, n)
              s == Ev("cq_clean", qp[q].send_cq, NULL, n)
          IN /\ IF Len(Calls(t)) <= Len(DestroyOrder(q))
                THEN IsPrefix(Calls(t), DestroyOrder(q))
                ELSE IsPrefix(DestroyOrder(q), Calls(t))
             /\ Only(log[t], {"cq_clean"}) =
                   IF qp[q].send_cq = qp[q].recv_cq \/ pc[t] = "d_clean_s"
                   THEN <<r>> ELSE <<r, s>>
             /\ pc[t] = "d_clear" =>
                   cqlock[qp[q].send_cq] = t /\ cqlock[qp[q].recv_cq] = t
             /\ pc[t] = "d_kdestroy" =>
                   /\ qp_table[n] = NULL
                   /\ \A c \in CQs : cqlock[c] # t
                   /\ Len(Calls(t)) = Len(DestroyOrder(q)) - 1
             /\ pc[t] = "d_free" => Calls(t) = DestroyOrder(q)

\* The kernel destroy of a QP with an SRQ and two different CQs has been
\* issued and has succeeded.
C14_Witness ==
    \E t \in Threads :
       /\ call[t].op = "destroy_qp" /\ pc[t] = "d_free"
       /\ qp[call[t].obj].srq # NULL
       /\ qp[call[t].obj].send_cq # qp[call[t].obj].recv_cq

(* ------------------------------------------------------------------ *)
\* The producer and consumer index of one side of a QP.
IdxOf(r, side) ==
    IF side = "sq" THEN <<r.sq_head, r.sq_tail>> ELSE <<r.rq_head, r.rq_tail>>

\* Thread t, in its current call, has taken the lock of that side of QP q
\* (pthread_spin_lock on qp->sq.lock or qp->rq.lock) and not dropped it.
HoldsSideLock(t, q, side) ==
    Cardinality({i \in DOMAIN log[t] : log[t][i] = Ev("lock", q, side, 0)})
       > Cardinality({i \in DOMAIN log[t] : log[t][i] = Ev("unlock", q, side, 0)})

\* C15: a step of a verbs call that writes the indices of one side of a
\* live QP is taken by a thread holding the lock of that side; so the
\* reinitialisation in a modify to RESET runs with both side locks held.
C15_IndicesUnderSideLock ==
    [][\A t \in Threads, q \in QPs, side \in Sides :
          (/\ call'[t].obj = q /\ pc'[t] # pc[t]
           /\ qp[q].st = "live" /\ qp'[q].st = "live"
           /\ IdxOf(qp'[q], side) # IdxOf(qp[q], side))
          => HoldsSideLock(t, q, side)]_vars

(* ------------------------------------------------------------------ *)
\* Thread t executes mlx4_cq_clean on CQ c in this step.
CleanStep(t, c) ==
    /\ Len(log'[t]) = Len(log[t]) + 1
    /\ log'[t][Len(log'[t])].f = "cq_clean"
    /\ log'[t][Len(log'[t])].a = c

\* C16: every clean of a CQ, from a QP destroy and from a modify to RESET,
\* is executed by a thread that holds the lock of that CQ.
C16_CleanUnderCqLock ==
    [][\A t \in Threads, c \in CQs : CleanStep(t, c) => cqlock[c] = t]_vars

(* ------------------------------------------------------------------ *)
\* C17: an SRQ that create returns has a stored ring size of at most 65536,
\* a scatter/gather count of at most 64 and a pending-receive counter of
\* zero, for every requested depth 0..65536 the sanity check accepts.
C17_SrqWithinLimits ==
    \A t \in Threads :
       (Done(t, "create_srq") /\ call[t].ret = 0) =>
          /\ srq[call[t].obj].max <= 65536
          /\ srq[call[t].obj].max_gs <= 64
          /\ srq[call[t].obj].counter = 0

(* ------------------------------------------------------------------ *)
\* C18: a QP that create returns has a send depth and a receive depth that
\* are each zero or a power of two and each at most 65536, for every
\* accepted request and everything the kernel reports back.
C18_QpDepths ==
    \A t \in Threads :
       (Done(t, "create_qp") /\ call[t].ret = 0) =>
          \A d \in {qp[call[t].obj].sq_max, qp[call[t].obj].rq_max} :
             (d = 0 \/ IsPow2(d)) /\ d <= 65536

(* ------------------------------------------------------------------ *)
\* C19: a QP-table entry, when present, refers to a QP object that has not
\* been freed and that owns that number in the kernel; an entry is changed
\* only by the thread working on the QP the entry refers to, so a thread
\* destroying one QP never removes or overwrites the entry of another QP
\* that was given the same number after the kernel destroy; no entry
\* survives the freeing of its object.
TableSound ==
    \A n \in QPNs :
       qp_table[n] # NULL =>
          /\ qp[qp_table[n]].st # "unalloc"
          /\ qp[qp_table[n]].qpn = n
          /\ kqp[n].obj = qp_table[n]

EntryChangedByOwner ==
    \A n \in QPNs :
       qp_table'[n] # qp_table[n] =>
          \E t \in Threads :
             /\ log'[t] # log[t]
             /\ \A q \in {qp_table[n], qp_table'[n]} \ {NULL} : call[t].obj = q

C19_TableEntryOwned == [][TableSound' /\ EntryChangedByOwner]_vars

\* Thread t1 is inside the destroy of its QP, after the kernel destroy and
\* before the object is freed, and the number that QP had is already the
\* table entry of the QP thread t2 created.
C19_Witness ==
    /\ pc["t1"] = "d_free"
    /\ call["t1"].op = "destroy_qp"
    /\ \E i \in DOMAIN log["t1"] :
          log["t1"][i].f = "clear_qp" /\ log["t1"][i].n = qp["qp1"].qpn
    /\ qp_table[qp["qp1"].qpn] = "qp2"
    /\ qp["qp2"].st = "live"

(* ------------------------------------------------------------------ *)
\* C20: no thread issues a kernel command while it holds a CQ lock, and
\* when mlx4_destroy_qp returns, with success or with the kernel's failure,
\* the returning thread holds no CQ lock.
KernelCmds ==
    {"cmd_create_cq", "cmd_destroy_cq", "cmd_create_srq", "cmd_destroy_srq",
     "cmd_create_qp", "cmd_modify_qp", "cmd_destroy_qp"}

\* Thread t invokes a kernel command in the step: its record of calls
\* grows by one.
IssuesKernelCmd(t) ==
    \E i \in DOMAIN log'[t] : i > Len(log[t]) /\ log'[t][i].f \in KernelCmds

HoldsCqLock(t) == \E c \in CQs : cqlock[c] = t

C20_NoCommandUnderCqLock ==
    [][\A t \in Threads :
          /\ IssuesKernelCmd(t) => ~HoldsCqLock(t)
          /\ Done(t, "destroy_qp")' => ~HoldsCqLock(t)']_vars

\* Thread t1 has returned from a destroy of a QP on two different CQs that
\* the kernel refused: it took and dropped both CQ locks around the removal
\* and again around the re-insertion, with the kernel command in between.
C20_Witness ==
    /\ Done("t1", "destroy_qp")
    /\ call["t1"].ret # 0
    /\ Names(Only(log["t1"], {"lock", "unlock", "cmd_destroy_qp"})) =
          <<"lock", "lock", "unlock", "unlock", "cmd_destroy_qp",
            "lock", "lock", "unlock", "unlock">>
    /\ \E c \in CQs : cqlock[c] = "t2"

====
